---------------------------- MODULE Spec2Model ----------------------------
(***************************************************************************)
(* A model of dprint-py's packaging scripts.                               *)
(*                                                                         *)
(*   build.py            Target.wheel_tag, generate_metadata and main, the *)
(*                       loop that turns every configured target into a    *)
(*                       wheel under dist/.                                *)
(*   generate_config.py  the tool that discovers the release assets and    *)
(*                       renders the [tool.pack-binary] configuration.     *)
(*                                                                         *)
(* Python str and bytes values are sequences: a str is a sequence of       *)
(* one-character strings, a bytes value a sequence of integers 0..255.     *)
(* An Optional[str] is a sequence of length at most one: << >> is None     *)
(* and <<s>> is the string s.                                              *)
(***************************************************************************)
EXTENDS Integers, Sequences, FiniteSets, TLC

VARIABLES
    tpc, tTarget, tResult,                  \* one call of Target.wheel_tag
    mpc, mProject, mReadable, mResult,      \* one call of generate_metadata
    pc, config, project, readable, idx,     \* build.main: position and inputs
    wheelTag, url, resp, extAttr, executable, files,   \* build.main: locals
    dist, fetched, steps, failedAt, built,  \* build.main: effects
    gpc, gTag, gMode, gApi, gHtml, gAssets, gHtmlAsked, gOut   \* generate_config.main

tagVars  == <<tpc, tTarget, tResult>>
metaVars == <<mpc, mProject, mReadable, mResult>>
asmVars  == <<pc, config, project, readable, idx, wheelTag, url, resp, extAttr,
              executable, files, dist, fetched, steps, failedAt, built>>
genVars  == <<gpc, gTag, gMode, gApi, gHtml, gAssets, gHtmlAsked, gOut>>
vars     == <<tagVars, metaVars, asmVars, genVars>>

-----------------------------------------------------------------------------
(* Bounds of the model.                                                    *)

MaxVerLen  == 4     \* longest version string given to wheel_tag
MaxTargets == 2     \* longest [[tool.pack-binary.target]] list
MaxItems   == 1     \* longest classifiers / authors list of a project
MaxTagLen  == 7     \* longest release tag given to the discovery tool

-----------------------------------------------------------------------------
(* Python str helpers.                                                     *)

None == << >>
Some(s) == <<s>>

Digits == {"0", "1", "2", "3", "4", "5", "6", "7", "8", "9"}

\* All sequences over alphabet A of length at most n.
RECURSIVE SeqsUpTo(_, _)
SeqsUpTo(A, n) ==
    IF n = 0 THEN {<< >>}
    ELSE LET shorter == SeqsUpTo(A, n - 1)
         IN  shorter \cup {Append(s, c) : s \in {t \in shorter : Len(t) = n - 1}, c \in A}

\* str.replace(old, new) for a one-character old.
RECURSIVE Replace(_, _, _)
Replace(s, old, new) ==
    IF s = << >> THEN << >>
    ELSE (IF Head(s) = old THEN <<new>> ELSE <<Head(s)>>) \o Replace(Tail(s), old, new)

\* sep.join(parts)
RECURSIVE Join(_, _)
Join(sep, parts) ==
    IF parts = << >> THEN << >>
    ELSE IF Len(parts) = 1 THEN parts[1]
    ELSE parts[1] \o sep \o Join(sep, Tail(parts))

\* str(n) for a natural number n.
RECURSIVE Str(_)
Str(n) ==
    LET d == <<"0", "1", "2", "3", "4", "5", "6", "7", "8", "9">>
    IN  IF n < 10 THEN <<d[n + 1]>> ELSE Str(n \div 10) \o <<d[(n % 10) + 1]>>

-----------------------------------------------------------------------------
(* build.py: Target.wheel_tag                                              *)

Platforms == {"win32", "linux", "osx"}
Archs     == {"amd64", "arm64"}

\* The characters of an arch literal.
ArchStr == [a \in Archs |-> IF a = "amd64" THEN <<"a","m","d","6","4">> ELSE <<"a","r","m","6","4">>]

_linux_arch_map == [a \in Archs |-> IF a = "arm64" THEN <<"a","a","r","c","h","6","4">> ELSE <<"x","8","6","_","6","4">>]
_osx_arch_map   == [a \in Archs |-> IF a = "arm64" THEN <<"a","r","m","6","4">> ELSE <<"x","8","6","_","6","4">>]

\* re.fullmatch(r"\d+\.\d+", s)
FullVersion(s) ==
    \E k \in 2 .. Len(s) - 1 :
        /\ s[k] = "."
        /\ \A i \in 1 .. Len(s) : i # k => s[i] \in Digits

\* version_pattern.match(s) for version_pattern = re.compile(r"^\d+\.\d+$"):
\* without re.MULTILINE the dollar anchor matches at the end of the string and
\* also just before a newline that ends the string.
version_pattern_match(s) ==
    \/ FullVersion(s)
    \/ Len(s) > 0 /\ s[Len(s)] = "\n" /\ FullVersion(SubSeq(s, 1, Len(s) - 1))

Returned(v) == [raised |-> "no", value |-> v]
Raised(e)   == [raised |-> e, value |-> << >>]

\* "not x" for an Optional[str]: None and the empty string are falsy.
Falsy(opt) == opt = None \/ opt[1] = << >>

wheel_tag(self) ==
    IF self.platform = "win32"
    THEN Returned(<<"p","y","3","-","n","o","n","e","-","w","i","n","_">> \o ArchStr[self.arch])
    ELSE IF self.platform = "linux"
    THEN IF Falsy(self.manylinux) THEN Raised("Exception")
         ELSE IF ~version_pattern_match(self.manylinux[1]) THEN Raised("ValueError")
         ELSE Returned(<<"p","y","3","-","n","o","n","e","-","m","a","n","y","l","i","n","u","x","_">> \o Replace(self.manylinux[1], ".", "_")
                       \o <<"_">> \o _linux_arch_map[self.arch])
    ELSE IF self.platform = "osx"
    THEN IF Falsy(self.macos_target_version) THEN Raised("Exception")
         ELSE IF ~version_pattern_match(self.macos_target_version[1]) THEN Raised("ValueError")
         ELSE Returned(<<"p","y","3","-","n","o","n","e","-","m","a","c","o","s","x","_">> \o Replace(self.macos_target_version[1], ".", "_")
                       \o <<"_">> \o _osx_arch_map[self.arch])
    ELSE Raised("ValueError")

-----------------------------------------------------------------------------
(* build.py: generate_metadata                                             *)
(*                                                                         *)
(* A project mapping is a function from its keys to their values.  A       *)
(* person is [name, email], each an Optional[str]; urls is a sequence of   *)
(* <<name, url>> pairs in the mapping's order.                             *)

Emp == [k \in {} |-> 0]

Pop(meta, k) == [x \in DOMAIN meta \ {k} |-> meta[x]]

\* generate_metadata without the pop of "readme".
PoppedKeysNoReadme ==
    <<"name", "version", "requires-python", "classifiers", "description", "license",
      "keywords", "authors", "maintainers", "urls">>

\* The keys generate_metadata pops, in the order of its pops.
PoppedKeys ==
    <<"name", "version", "requires-python", "classifiers", "description", "license",
      "keywords", "authors", "maintainers", "urls", "readme">>

\* meta after every pop: what "if meta:" tests and the error lists.
RECURSIVE PopAll(_, _)
PopAll(meta, keys) ==
    IF keys = << >> THEN meta ELSE PopAll(Pop(meta, Head(keys)), Tail(keys))

Leftover(proj) == DOMAIN PopAll(proj, PoppedKeys)

\* meta.pop(k, default)
GetOr(proj, k, default) == IF k \in DOMAIN proj THEN proj[k] ELSE default

\* One "Key: value" line per element of a list.
RECURSIVE EachLine(_, _)
EachLine(prefix, values) ==
    IF values = << >> THEN << >>
    ELSE <<prefix \o Head(values)>> \o EachLine(prefix, Tail(values))

\* str(Address(display_name=name, addr_spec=email)) for a name without
\* specials: "name <email>", or the bare address when the name is empty.
AddressStr(name, email) ==
    IF name = << >> THEN email ELSE name \o <<" ","<">> \o email \o <<">">>

\* A person whose formatting raises: an email with no name makes
\* Address(display_name=None, ...) raise TypeError when it is formatted.
PersonRaises(person) == ~Falsy(person.email) /\ person.name = None

PersonLine(meta_name, person) ==
    IF ~Falsy(person.email)
    THEN meta_name \o <<":"," ">> \o AddressStr(person.name[1], person.email[1])
    ELSE meta_name \o <<":"," ">> \o (IF person.name = None THEN <<"N","o","n","e">> ELSE person.name[1])

RECURSIVE PeopleLines(_, _)
PeopleLines(meta_name, people) ==
    IF people = << >> THEN << >>
    ELSE <<PersonLine(meta_name, Head(people))>> \o PeopleLines(meta_name, Tail(people))

RECURSIVE UrlLines(_)
UrlLines(urls) ==
    IF urls = << >> THEN << >>
    ELSE <<<<"P","r","o","j","e","c","t","-","U","R","L",":"," ">> \o Head(urls)[1] \o <<","," ">> \o Head(urls)[2]>> \o UrlLines(Tail(urls))

SummaryLines(proj) ==
    LET summary == GetOr(proj, "description", << >>)
    IN  IF summary # << >> THEN <<<<"S","u","m","m","a","r","y",":"," ">> \o summary>> ELSE << >>

LicenseLines(proj) ==
    LET license == GetOr(proj, "license", << >>)
    IN  IF license # << >> THEN <<<<"L","i","c","e","n","s","e",":"," ">> \o license>> ELSE << >>

KeywordsLines(proj) ==
    LET keywords == GetOr(proj, "keywords", << >>)
    IN  IF keywords # << >> THEN <<<<"K","e","y","w","o","r","d","s",":"," ">> \o Join(<<",">>, keywords)>> ELSE << >>

\* The readme block with the blank line yielded first.
ReadmeLinesBlankFirst(body) ==
    <<<< >>, <<"D","e","s","c","r","i","p","t","i","o","n","-","C","o","n","t","e","n","t","-","T","y","p","e",":"," ","t","e","x","t","/","m","a","r","k","d","o","w","n",";"," ","c","h","a","r","s","e","t","=","U","T","F","-","8",";"," ","v","a","r","i","a","n","t","=","G","F","M">>, body>>

\* The three yields of the readme block, body being the file's text.
ReadmeLines(body) ==
    <<<<"D","e","s","c","r","i","p","t","i","o","n","-","C","o","n","t","e","n","t","-","T","y","p","e",":"," ","t","e","x","t","/","m","a","r","k","d","o","w","n",";"," ","c","h","a","r","s","e","t","=","U","T","F","-","8",";"," ","v","a","r","i","a","n","t","=","G","F","M">>, << >>, body>>

\* The text of the readme file, when it can be read.
ReadmeBody == <<"#"," ","d","p","r","i","n","t","\n">>

Yielded(lines) == [raised |-> "no", lines |-> lines, keys |-> {}]
MetaRaised(e, keys) == [raised |-> e, lines |-> << >>, keys |-> keys]

\* The generator run to its end, as "\n".join(generate_metadata(project))
\* runs it: the lines it yields, or the exception that ends it.  canRead
\* says whether Path(readme).read_text succeeds.
generate_metadata(proj, canRead) ==
    LET people == GetOr(proj, "authors", << >>) \o GetOr(proj, "maintainers", << >>)
        readme == GetOr(proj, "readme", << >>)
    IN  IF "name" \notin DOMAIN proj \/ "version" \notin DOMAIN proj
           \/ "requires-python" \notin DOMAIN proj
        THEN MetaRaised("KeyError", {})
        ELSE IF \E i \in 1 .. Len(people) : PersonRaises(people[i])
        THEN MetaRaised("TypeError", {})
        ELSE IF readme # << >> /\ ~canRead
        THEN MetaRaised("FileNotFoundError", {})
        ELSE IF Leftover(proj) # {}
        THEN MetaRaised("ValueError", Leftover(proj))
        ELSE Yielded(
                <<<<"M","e","t","a","d","a","t","a","-","V","e","r","s","i","o","n",":"," ","2",".","4">>,
                  <<"N","a","m","e",":"," ">> \o proj["name"],
                  <<"V","e","r","s","i","o","n",":"," ">> \o proj["version"],
                  <<"R","e","q","u","i","r","e","s","-","P","y","t","h","o","n",":"," ">> \o proj["requires-python"]>>
                \o EachLine(<<"C","l","a","s","s","i","f","i","e","r",":"," ">>, GetOr(proj, "classifiers", << >>))
                \o SummaryLines(proj)
                \o LicenseLines(proj)
                \o KeywordsLines(proj)
                \o PeopleLines(<<"A","u","t","h","o","r">>, GetOr(proj, "authors", << >>))
                \o PeopleLines(<<"M","a","i","n","t","a","i","n","e","r">>, GetOr(proj, "maintainers", << >>))
                \o UrlLines(GetOr(proj, "urls", << >>))
                \o (IF readme # << >> THEN ReadmeLines(ReadmeBody) ELSE << >>))

-----------------------------------------------------------------------------
(* build.py: main, the pieces of one loop iteration                        *)

\* The printable ASCII characters in code order: 32 (space) to 95, and 97
\* to 126 (96, the backquote, occurs in no file the program writes).
AsciiLo == <<" ","!","\"","#","$","%","&","'","(",")","*","+",",","-",".","/","0","1","2","3","4","5","6","7","8","9",":",";","<","=",">","?","@","A","B","C","D","E","F","G","H","I","J","K","L","M","N","O","P","Q","R","S","T","U","V","W","X","Y","Z","[","\\","]","^","_">>
AsciiHi == <<"a","b","c","d","e","f","g","h","i","j","k","l","m","n","o","p","q","r","s","t","u","v","w","x","y","z","{","|","}","~">>

\* ord(c), for the characters the files are made of.
Ord ==
    [c \in {AsciiLo[i] : i \in 1 .. Len(AsciiLo)} \cup {AsciiHi[i] : i \in 1 .. Len(AsciiHi)}
           \cup {"\n"} |->
        IF c = "\n" THEN 10
        ELSE IF \E i \in 1 .. Len(AsciiLo) : AsciiLo[i] = c
        THEN 31 + CHOOSE i \in 1 .. Len(AsciiLo) : AsciiLo[i] = c
        ELSE 96 + CHOOSE i \in 1 .. Len(AsciiHi) : AsciiHi[i] = c]

\* str.encode() of an ASCII string: its bytes.
Encode(s) == [i \in 1 .. Len(s) |-> Ord[s[i]]]

\* bytes.decode() of ASCII bytes.
Decode(b) ==
    [i \in 1 .. Len(b) |->
        IF b[i] = 10 THEN "\n"
        ELSE IF b[i] < 96 THEN AsciiLo[b[i] - 31] ELSE AsciiHi[b[i] - 96]]

\* The size in bytes of a SHA-256 digest.
DigestSize == 32

\* hashlib.sha256(content).digest(): DigestSize bytes determined by the
\* content.  The compression function is replaced by a position-weighted
\* sum of the bytes; the digest's length and its dependence on every byte
\* and on the place of every byte are kept.
RECURSIVE Mix(_, _, _)
Mix(content, lo, hi) ==
    IF lo > hi THEN 7
    ELSE IF lo = hi THEN ((content[lo] + 1) * ((lo % 251) + 1)) % 65521
    ELSE LET mid == (lo + hi) \div 2
         IN  (Mix(content, lo, mid) * 3 + Mix(content, mid + 1, hi)) % 65521

Spread(h) == [j \in 1 .. DigestSize |-> (h * j + (h \div 256) + j) % 256]

sha256_digest(content) ==
    CHOOSE d \in {Spread(h) : h \in {Mix(content, 1, Len(content))}} : TRUE

\* The URL-safe base64 alphabet.
B64Alphabet ==
    <<"A","B","C","D","E","F","G","H","I","J","K","L","M","N","O","P","Q","R","S","T","U","V","W","X","Y","Z","a","b","c","d","e","f","g","h","i","j","k","l","m","n","o","p","q","r","s","t","u","v","w","x","y","z","0","1","2","3","4","5","6","7","8","9","-","_">>

\* The byte at 0-based place k, or 0 past the end.
ByteAt(b, k) == IF k < Len(b) THEN b[k + 1] ELSE 0

\* base64.urlsafe_b64encode(b), as text: four characters for every three
\* bytes, the last group padded with "=".
urlsafe_b64encode(b) ==
    [p \in 1 .. 4 * ((Len(b) + 2) \div 3) |->
        LET g == (p - 1) \div 4
            q == (p - 1) % 4
        IN  IF q = 0 THEN B64Alphabet[(ByteAt(b, 3 * g) \div 4) + 1]
            ELSE IF q = 1
            THEN B64Alphabet[((ByteAt(b, 3 * g) % 4) * 16 + (ByteAt(b, 3 * g + 1) \div 16)) + 1]
            ELSE IF q = 2
            THEN IF 3 * g + 1 >= Len(b) THEN "="
                 ELSE B64Alphabet[((ByteAt(b, 3 * g + 1) % 16) * 4
                                   + (ByteAt(b, 3 * g + 2) \div 64)) + 1]
            ELSE IF 3 * g + 2 >= Len(b) THEN "="
                 ELSE B64Alphabet[(ByteAt(b, 3 * g + 2) % 64) + 1]]

\* s.rstrip("=")
RECURSIVE RStripEq(_)
RStripEq(s) ==
    IF s # << >> /\ s[Len(s)] = "=" THEN RStripEq(SubSeq(s, 1, Len(s) - 1)) ELSE s

\* The digest field with the base64 padding left in place.
DigestFieldPadded(content) ==
    <<"s","h","a","2","5","6","=">> \o urlsafe_b64encode(sha256_digest(content))

\* The digest field of a RECORD line.
DigestField(content) ==
    <<"s","h","a","2","5","6","=">> \o RStripEq(urlsafe_b64encode(sha256_digest(content)))

\* jinja2.Template(source).render(**context).  A template is its parsed
\* form, a sequence of segments: literal text, or the placeholder of a
\* variable.  jinja2's default Undefined renders a variable that is not
\* in the context as the empty string, without an error.
Lit(text) == [kind |-> "lit", text |-> text, var |-> ""]
Var(name) == [kind |-> "var", text |-> << >>, var |-> name]

RECURSIVE Render(_, _)
Render(template, context) ==
    IF template = << >> THEN << >>
    ELSE LET seg == Head(template)
         IN  (IF seg.kind = "lit" THEN seg.text
              ELSE IF seg.var \in DOMAIN context THEN context[seg.var]
              ELSE << >>)
             \o Render(Tail(template), context)

\* name.replace("-", "_") + "-" + version
PackageNameWithVersion(proj) ==
    Replace(proj["name"], "-", "_") \o <<"-">> \o proj["version"]

BinExt(target) == IF target.platform = "win32" THEN <<".","e","x","e">> ELSE << >>

\* Path(a, b, ...).as_posix() for relative components without separators.
PathJoin(parts) == Join(<<"/">>, parts)

\* files[path] = file on a dict, which keeps its keys in insertion order: a
\* key already present keeps its place and takes the new value.
DictSet(fs, path, file) ==
    IF \E i \in 1 .. Len(fs) : fs[i].path = path
    THEN [i \in 1 .. Len(fs) |-> IF fs[i].path = path THEN file ELSE fs[i]]
    ELSE Append(fs, file)

File(path, content, isExecutable) ==
    [path |-> path, content |-> content, executable |-> isExecutable]

ExecutablePath(proj, cfg, target) ==
    PathJoin(<<PackageNameWithVersion(proj) \o <<".","d","a","t","a">>, <<"s","c","r","i","p","t","s">>,
               cfg.cmd \o BinExt(target)>>)

DistInfoPath(proj, leaf) ==
    PathJoin(<<PackageNameWithVersion(proj) \o <<".","d","i","s","t","-","i","n","f","o">>, leaf>>)

WheelFile(tag) ==
    Encode(Join(<<"\n">>, <<<<"W","h","e","e","l","-","V","e","r","s","i","o","n",":"," ","1",".","0">>, <<"G","e","n","e","r","a","t","o","r",":"," ","p","a","c","k","-","b","i","n","a","r","y"," ","(","0",".","0",".","1",")">>,
                          <<"R","o","o","t","-","I","s","-","P","u","r","e","l","i","b",":"," ","f","a","l","s","e">>, <<"T","a","g",":"," ">> \o tag, << >> >>))

MetaFile(lines) == Encode(Join(<<"\n">>, lines) \o <<"\n">>)

\* The records list: one triple per file of the dict, in the dict's order,
\* then the triple of RECORD itself.
Records(fs, recordPath) ==
    [i \in 1 .. Len(fs) |->
        <<fs[i].path, DigestField(fs[i].content), Str(Len(fs[i].content))>>]
    \o << <<recordPath, << >>, << >> >> >>

RecordFile(records) ==
    Encode(Join(<<"\n">>, [i \in 1 .. Len(records) |-> Join(<<",">>, records[i])])) \o <<10>>

\* The files dict when the loop body reaches the write: lines 135 to 174.
BuildFiles(proj, cfg, target, tag, exe, metaLines) ==
    LET f1 == DictSet(<< >>, ExecutablePath(proj, cfg, target),
                      File(ExecutablePath(proj, cfg, target), exe, TRUE))
        f2 == DictSet(f1, DistInfoPath(proj, <<"W","H","E","E","L">>),
                      File(DistInfoPath(proj, <<"W","H","E","E","L">>), WheelFile(tag), FALSE))
        f3 == DictSet(f2, DistInfoPath(proj, <<"M","E","T","A","D","A","T","A">>),
                      File(DistInfoPath(proj, <<"M","E","T","A","D","A","T","A">>), MetaFile(metaLines), FALSE))
        recordPath == DistInfoPath(proj, <<"R","E","C","O","R","D">>)
    IN  DictSet(f3, recordPath, File(recordPath, RecordFile(Records(f3, recordPath)), FALSE))

WheelName(proj, tag) == PackageNameWithVersion(proj) \o <<"-">> \o tag \o <<".","w","h","l">>

\* The members the writer stores: one per file, in the dict's order; the
\* executable of a non-Windows target takes the mode bits captured from the
\* fetched archive.
ZipEntries(fs, target, attr) ==
    [i \in 1 .. Len(fs) |->
        [name |-> fs[i].path, content |-> fs[i].content,
         attr |-> IF fs[i].executable /\ target.platform # "win32" THEN attr ELSE 0]]

\* zf.getinfo(name): the member of that name.
HasMember(body, name) == \E i \in 1 .. Len(body.members) : body.members[i].name = name
GetInfo(body, name) ==
    body.members[CHOOSE i \in 1 .. Len(body.members) : body.members[i].name = name]

-----------------------------------------------------------------------------
(* build.py: the inputs of a run                                           *)

MemberName == <<"d","p","r","i","n","t">>

TplVersion == <<Lit(<<"u","/">>), Var("version"), Lit(<<"/","a",".","z","i","p">>)>>
TplTypo    == <<Lit(<<"u","/">>), Var("ver"), Lit(<<"/","a",".","z","i","p">>)>>

Target(tpl, platform, arch, manylinux, macos) ==
    [url |-> tpl, name |-> MemberName, platform |-> platform, arch |-> arch,
     manylinux |-> manylinux, macos_target_version |-> macos]

\* Targets pydantic's validation of Config accepts: url and name are
\* strings, platform and arch are among the literals, and the two variant
\* fields are optional strings whatever the platform.
TargetUniverse ==
    { Target(TplVersion, "win32", "amd64", None, None),
      Target(TplTypo,    "linux", "arm64", Some(<<"2",".","1","7">>), None),
      Target(TplVersion, "osx",   "arm64", None, Some(<<"1","1",".","0">>)),
      Target(TplVersion, "linux", "amd64", None, None),
      Target(TplVersion, "win32", "amd64", Some(<<"2",".","1","7">>), None) }

TargetLists(n) == UNION {[1 .. k -> TargetUniverse] : k \in 1 .. n}

Configs(n) ==
    [cmd : {<<"d","p">>}, context : {[version |-> <<"1">>]}, target : TargetLists(n)]

MinimalProject ==
    ("name" :> <<"d","-","p">>) @@ ("version" :> <<"1",".","0">>) @@ ("requires-python" :> <<">","=","3",".","8">>)

AsmProjects ==
    { MinimalProject,
      MinimalProject @@ ("readme" :> <<"R","E","A","D","M","E",".","m","d">>),
      MinimalProject @@ ("bogus" :> <<"1">>) }

\* What the server may answer: a status and a body.  A body is a zip
\* archive with its members, or bytes that are no zip archive.
Member(name, attr, data) == [name |-> name, attr |-> attr, data |-> data]
ZipBody(members) == [zip |-> TRUE, members |-> members]
NotZip == [zip |-> FALSE, members |-> << >>]

Responses ==
    [status : {200},
     body : { ZipBody(<<Member(MemberName, 493, <<127, 69>>)>>),
              ZipBody(<<Member(<<"L","I","C","E","N","S","E">>, 420, <<77>>)>>),
              NotZip }]
    \cup
    [status : {404},
     body : { ZipBody(<<Member(<<"L","I","C","E","N","S","E">>, 420, <<77>>), Member(MemberName, 448, <<77, 90, 0>>)>>),
              NotZip }]

NoResponse == [status |-> 0, body |-> NotZip]

-----------------------------------------------------------------------------
(* Values of the variables of a part of the model that is not running.     *)

TagIdle ==
    /\ tpc = "idle"
    /\ tTarget = Target(TplVersion, "win32", "amd64", None, None)
    /\ tResult = Raised("pending")

MetaIdle ==
    /\ mpc = "idle"
    /\ mProject = MinimalProject
    /\ mReadable = TRUE
    /\ mResult = MetaRaised("pending", {})

AsmIdle ==
    /\ pc = "idle"
    /\ config = [cmd |-> <<"d","p">>, context |-> [version |-> <<"1">>], target |-> << >>]
    /\ project = MinimalProject
    /\ readable = TRUE
    /\ idx = 1
    /\ wheelTag = << >> /\ url = << >> /\ resp = NoResponse /\ extAttr = 0
    /\ executable = << >> /\ files = << >>
    /\ dist = Emp /\ fetched = << >> /\ steps = {} /\ failedAt = 0 /\ built = Emp

GenIdle ==
    /\ gpc = "idle"
    /\ gTag = << >> /\ gMode = "stdout"
    /\ gApi = [kind |-> "none", assets |-> Emp]
    /\ gHtml = [kind |-> "none", assets |-> Emp]
    /\ gAssets = Emp /\ gHtmlAsked = FALSE /\ gOut = << >>

-----------------------------------------------------------------------------
(* Target.wheel_tag called on a target built directly.                     *)

VersionAlphabet == {"2", ".", "x", "\n"}

VersionStrings(n) == SeqsUpTo(VersionAlphabet, n)

\* The variant fields: every short string in one field, with the other
\* field unset or set to a well-formed version.
TagTargets(n) ==
    { Target(TplVersion, p, a, m, v) :
        p \in Platforms \cup {"freebsd"}, a \in Archs,
        m \in {None} \cup {Some(x) : x \in VersionStrings(n)},
        v \in {None, Some(<<"1","1",".","0">>)} }
    \cup
    { Target(TplVersion, p, a, m, v) :
        p \in Platforms, a \in Archs,
        m \in {None, Some(<<"2",".","1","7">>)},
        v \in {Some(x) : x \in VersionStrings(n)} }

InitTag ==
    /\ tpc = "ready"
    /\ tTarget \in TagTargets(MaxVerLen)
    /\ tResult = Raised("pending")
    /\ MetaIdle /\ AsmIdle /\ GenIdle

CallWheelTag ==
    /\ tpc = "ready"
    /\ tResult' = wheel_tag(tTarget)
    /\ tpc' = "done"
    /\ UNCHANGED <<tTarget, metaVars, asmVars, genVars>>

NextTag == CallWheelTag

SpecTag == InitTag /\ [][NextTag]_vars

-----------------------------------------------------------------------------
(* generate_metadata called on a project mapping.                          *)

Person(name, email) == [name |-> name, email |-> email]

Ada == Person(Some(<<"A">>), Some(<<"a","@","x",".","i","o">>))
Bob == Person(Some(<<"B">>), None)
Anon == Person(None, Some(<<"n","@","x",".","i","o">>))

\* Lists of at most n elements of a sequence of candidates, in its order.
ListsOf(candidates, n) ==
    {SubSeq(candidates, 1, k) : k \in 0 .. (IF n < Len(candidates) THEN n ELSE Len(candidates))}

\* A key left out, or given one of the values.
Opt(key, values) == {Emp} \cup {key :> v : v \in values}

MetaProjects(n) ==
    { req @@ c @@ d @@ l @@ k @@ a @@ m @@ u @@ r @@ x @@ y :
        req \in { MinimalProject, Pop(MinimalProject, "requires-python") },
        c \in Opt("classifiers", ListsOf(<<<<"T"," ",":",":"," ","A">>, <<"T"," ",":",":"," ","B">>>>, n)),
        d \in Opt("description", {<< >>, <<"f","m","t">>}),
        l \in Opt("license", {<<"M","I","T">>}),
        k \in Opt("keywords", {<< >>, <<<<"a">>, <<"b">>>>}),
        a \in Opt("authors", ListsOf(<<Ada, Bob>>, n + 1) \cup {<<Anon>>}),
        m \in Opt("maintainers", {<<Bob>>}),
        u \in Opt("urls", {<< <<<<"H">>, <<"u">>>> >>}),
        r \in Opt("readme", {<< >>, <<"R","E","A","D","M","E",".","m","d">>}),
        x \in Opt("bogus", {<<"1">>}),
        y \in Opt("dependencies", {<< >>}) }

InitMeta ==
    /\ mpc = "ready"
    /\ mProject \in MetaProjects(MaxItems)
    /\ mReadable \in BOOLEAN
    /\ (mReadable = FALSE => "readme" \in DOMAIN mProject)
    /\ mResult = MetaRaised("pending", {})
    /\ TagIdle /\ AsmIdle /\ GenIdle

CallGenerateMetadata ==
    /\ mpc = "ready"
    /\ mResult' = generate_metadata(mProject, mReadable)
    /\ mpc' = "done"
    /\ UNCHANGED <<mProject, mReadable, tagVars, asmVars, genVars>>

NextMeta == CallGenerateMetadata

SpecMeta == InitMeta /\ [][NextMeta]_vars

-----------------------------------------------------------------------------
(* build.py: main.  One action per step of the loop body; an exception at  *)
(* any step propagates out of main and ends the run.                       *)
(*                                                                         *)
(*   steps    the <<target index, step>> pairs performed so far            *)
(*   fetched  the requests issued: target index and URL                    *)
(*   dist     the files under dist/: for each name the members stored, and *)
(*            whether the writer finished the file                         *)
(*   built    for each target whose write finished, the members it wrote   *)

InitAsm ==
    /\ pc = "tag"
    /\ config \in Configs(MaxTargets)
    /\ project \in AsmProjects
    /\ readable \in BOOLEAN
    /\ (readable = FALSE => "readme" \in DOMAIN project)
    /\ idx = 1
    /\ wheelTag = << >> /\ url = << >> /\ resp = NoResponse /\ extAttr = 0
    /\ executable = << >> /\ files = << >>
    /\ dist = Emp /\ fetched = << >> /\ steps = {} /\ failedAt = 0 /\ built = Emp
    /\ TagIdle /\ MetaIdle /\ GenIdle

target == config.target[idx]

Did(step) == steps' = steps \cup {<<idx, step>>}

\* An exception leaves the loop and main.
Fail ==
    /\ pc' = "failed"
    /\ failedAt' = idx

\* Lines 110 to 115: the project's name and version, and the wheel tag.
ComputeTag ==
    /\ pc = "tag"
    /\ Did("tag")
    /\ IF "name" \notin DOMAIN project \/ "version" \notin DOMAIN project
          \/ wheel_tag(target).raised # "no"
       THEN Fail /\ UNCHANGED wheelTag
       ELSE /\ wheelTag' = wheel_tag(target).value
            /\ pc' = "render"
            /\ UNCHANGED failedAt
    /\ UNCHANGED <<config, project, readable, idx, url, resp, extAttr, executable, files,
                   dist, fetched, built>>
    /\ UNCHANGED <<tagVars, metaVars, genVars>>

\* Line 119: the URL rendered from the target's template.
RenderUrl ==
    /\ pc = "render"
    /\ Did("render")
    /\ url' = Render(target.url, config.context)
    /\ pc' = "fetch"
    /\ UNCHANGED <<config, project, readable, idx, wheelTag, resp, extAttr, executable,
                   files, dist, fetched, failedAt, built>>
    /\ UNCHANGED <<tagVars, metaVars, genVars>>

\* Line 122: httpx.get(url, follow_redirects=True).  The request raises on
\* a transport failure; any response, whatever its status, is returned.
Fetch ==
    /\ pc = "fetch"
    /\ Did("fetch")
    /\ fetched' = Append(fetched, [idx |-> idx, url |-> url])
    /\ \/ Fail /\ UNCHANGED resp
       \/ \E r \in Responses :
            /\ resp' = r
            /\ pc' = "extract"
            /\ UNCHANGED failedAt
    /\ UNCHANGED <<config, project, readable, idx, wheelTag, url, extAttr, executable,
                   files, dist, built>>
    /\ UNCHANGED <<tagVars, metaVars, genVars>>

\* Lines 123 to 127: the body opened as a zip archive (BadZipFile when it is
\* none), the member looked up (KeyError when absent) and read.
Extract ==
    /\ pc = "extract"
    /\ Did("extract")
    /\ IF ~resp.body.zip \/ ~HasMember(resp.body, target.name)
       THEN Fail /\ UNCHANGED <<extAttr, executable>>
       ELSE /\ extAttr' = GetInfo(resp.body, target.name).attr
            /\ executable' = GetInfo(resp.body, target.name).data
            /\ pc' = "layout"
            /\ UNCHANGED failedAt
    /\ UNCHANGED <<config, project, readable, idx, wheelTag, url, resp, files, dist,
                   fetched, built>>
    /\ UNCHANGED <<tagVars, metaVars, genVars>>

\* Lines 129 to 174: the files dict, METADATA rendered on the way.
Layout ==
    /\ pc = "layout"
    /\ Did("layout")
    /\ LET meta == generate_metadata(project, readable)
       IN  IF meta.raised # "no"
           THEN Fail /\ UNCHANGED files
           ELSE /\ files' = BuildFiles(project, config, target, wheelTag, executable,
                                       meta.lines)
                /\ pc' = "write"
                /\ UNCHANGED failedAt
    /\ UNCHANGED <<config, project, readable, idx, wheelTag, url, resp, extAttr,
                   executable, dist, fetched, built>>
    /\ UNCHANGED <<tagVars, metaVars, genVars>>

Stored(entries, complete) ==
    [entries |-> entries, complete |-> complete, by |-> idx, status |-> resp.status,
     url |-> url]

\* Lines 176 to 186: the wheel written.  ZipFile(path, "w") creates or
\* truncates the file and the members follow; the file system may refuse the
\* open, or fail a later write and leave the members written so far.
Write ==
    /\ pc = "write"
    /\ Did("write")
    /\ LET wheel_name == WheelName(project, wheelTag)
           entries == ZipEntries(files, target, extAttr)
       IN  \/ /\ dist' = (wheel_name :> Stored(entries, TRUE)) @@ dist
              /\ built' = (idx :> entries) @@ built
              /\ IF idx < Len(config.target)
                 THEN idx' = idx + 1 /\ pc' = "tag"
                 ELSE idx' = idx /\ pc' = "done"
              /\ wheelTag' = << >> /\ url' = << >> /\ resp' = NoResponse /\ extAttr' = 0
              /\ executable' = << >> /\ files' = << >>
              /\ UNCHANGED failedAt
           \/ /\ Fail
              /\ UNCHANGED <<dist, built, idx, wheelTag, url, resp, extAttr, executable, files>>
           \/ /\ \E k \in 0 .. Len(entries) - 1 :
                    dist' = (wheel_name :> Stored(SubSeq(entries, 1, k), FALSE)) @@ dist
              /\ Fail
              /\ UNCHANGED <<built, idx, wheelTag, url, resp, extAttr, executable, files>>
    /\ UNCHANGED <<config, project, readable, fetched>>
    /\ UNCHANGED <<tagVars, metaVars, genVars>>

Next ==
    \/ ComputeTag
    \/ RenderUrl
    \/ Fetch
    \/ Extract
    \/ Layout
    \/ Write

Spec == InitAsm /\ [][Next]_vars

-----------------------------------------------------------------------------
(* generate_config.py                                                      *)
(*                                                                         *)
(* An assets dict is a function from asset names to URLs.  A URL is        *)
(* <<origin, asset name>>, or << >> for an empty string.  The rendered     *)
(* configuration is kept as the value it is rendered from.                 *)

\* The asset names of ASSET_TARGETS, in its order.
ASSET_TARGETS ==
    <<"dprint-x86_64-pc-windows-msvc.zip", "dprint-x86_64-unknown-linux-gnu.zip",
      "dprint-aarch64-unknown-linux-gnu.zip", "dprint-aarch64-apple-darwin.zip",
      "dprint-x86_64-apple-darwin.zip">>

AssetNames == {ASSET_TARGETS[i] : i \in 1 .. Len(ASSET_TARGETS)}

\* The elements of a finite set of integers in increasing order.
RECURSIVE Sorted(_)
Sorted(S) ==
    IF S = {} THEN << >>
    ELSE LET lo == CHOOSE x \in S : \A y \in S : x <= y
         IN  <<lo>> \o Sorted(S \ {lo})

\* The pieces of s between the cuts, a sequence of positions that starts
\* with 0 and ends with Len(s) + 1.
Pieces(s, cuts) == [i \in 1 .. Len(cuts) - 1 |-> SubSeq(s, cuts[i] + 1, cuts[i + 1] - 1)]

\* s.split(sep) for a one-character sep.
Split(s, sep) ==
    Pieces(s, <<0>> \o Sorted({i \in 1 .. Len(s) : s[i] = sep}) \o <<Len(s) + 1>>)

AllDigits(s) == s # << >> /\ \A i \in 1 .. Len(s) : s[i] \in Digits

\* TAG_PATTERN.fullmatch(tag) for TAG_PATTERN = \d+\.\d+\.\d+(?:\.\d+)?
TAG_PATTERN_fullmatch(tag) ==
    LET parts == Split(tag, ".")
    IN  Len(parts) \in {3, 4} /\ \A i \in 1 .. Len(parts) : AllDigits(parts[i])

\* normalize_python_version
normalize_python_version(tag) ==
    IF Len(Split(tag, ".")) = 4 THEN tag ELSE tag \o <<".","0">>

\* The loop of build_config over ASSET_TARGETS: the names whose URL is
\* absent or empty.
RECURSIVE MissingFrom(_, _)
MissingFrom(assets, names) ==
    IF names = << >> THEN << >>
    ELSE (IF Head(names) \notin DOMAIN assets \/ assets[Head(names)] = << >>
          THEN <<Head(names)>> ELSE << >>)
         \o MissingFrom(assets, Tail(names))

\* The check with only the absent names counted, an empty URL accepted.
MissingAbsentOnly(assets) ==
    SelectSeq(ASSET_TARGETS, LAMBDA n : n \notin DOMAIN assets)

Missing(assets) == MissingFrom(assets, ASSET_TARGETS)

RECURSIVE TargetsFrom(_, _)
TargetsFrom(assets, names) ==
    IF names = << >> THEN << >>
    ELSE (IF Head(names) \notin DOMAIN assets \/ assets[Head(names)] = << >>
          THEN << >> ELSE <<[asset |-> Head(names), url |-> assets[Head(names)]]>>)
         \o TargetsFrom(assets, Tail(names))

\* Whether fetch_release_assets returns the API's assets: the status is a
\* success and the dict built from the answer is not empty.
ApiSuffices(api) == api.kind = "ok" /\ DOMAIN api.assets # {}

\* What a server may answer: no answer (httpx.RequestError), an error
\* status, or a success naming some assets.
Answers(origin) ==
    {[kind |-> "request_error", assets |-> Emp], [kind |-> "bad_status", assets |-> Emp]}
    \cup {[kind |-> "ok", assets |-> [n \in S |-> <<origin, n>>]] : S \in SUBSET AssetNames}
    \cup {[kind |-> "ok",
           assets |-> [n \in AssetNames \cup {"SHASUMS256.txt"} |->
                          IF n = ASSET_TARGETS[1] /\ origin = "api" THEN << >>
                          ELSE <<origin, n>>]]}

TagAlphabet == {"1", ".", "x"}

InitGen ==
    /\ gpc = "validate"
    /\ gTag \in SeqsUpTo(TagAlphabet, MaxTagLen)
    /\ gMode \in {"stdout", "output", "pyproject"}
    /\ gApi = [kind |-> "none", assets |-> Emp]
    /\ gHtml = [kind |-> "none", assets |-> Emp]
    /\ gAssets = Emp /\ gHtmlAsked = FALSE /\ gOut = << >>
    /\ TagIdle /\ MetaIdle /\ AsmIdle

\* build_config line 117: validate_tag.
ValidateTag ==
    /\ gpc = "validate"
    /\ gpc' = IF TAG_PATTERN_fullmatch(gTag) THEN "load" ELSE "exit"
    /\ UNCHANGED <<gTag, gMode, gApi, gHtml, gAssets, gHtmlAsked, gOut>>
    /\ UNCHANGED <<tagVars, metaVars, asmVars>>

\* build_config line 118: load_pack_binary_config reads pyproject.toml; it
\* raises when the file or its [tool.pack-binary] tables are missing.
LoadConfig ==
    /\ gpc = "load"
    /\ gpc' \in {"api", "exit"}
    /\ UNCHANGED <<gTag, gMode, gApi, gHtml, gAssets, gHtmlAsked, gOut>>
    /\ UNCHANGED <<tagVars, metaVars, asmVars>>

\* fetch_release_assets lines 50 to 74: the release API.
FetchApi ==
    /\ gpc = "api"
    /\ \E a \in Answers("api") :
        /\ gApi' = a
        /\ IF a.kind = "request_error" THEN gpc' = "exit" /\ UNCHANGED gAssets
           ELSE IF ApiSuffices(a) THEN gpc' = "build" /\ gAssets' = a.assets
           ELSE gpc' = "html" /\ UNCHANGED gAssets
    /\ UNCHANGED <<gTag, gMode, gHtml, gHtmlAsked, gOut>>
    /\ UNCHANGED <<tagVars, metaVars, asmVars>>

\* fetch_release_assets lines 76 to 106: the HTML listing page.
FetchHtml ==
    /\ gpc = "html"
    /\ gHtmlAsked' = TRUE
    /\ \E a \in Answers("html") :
        /\ gHtml' = a
        /\ IF a.kind # "ok" \/ DOMAIN a.assets = {}
           THEN gpc' = "exit" /\ UNCHANGED gAssets
           ELSE gpc' = "build" /\ gAssets' = a.assets
    /\ UNCHANGED <<gTag, gMode, gApi, gOut>>
    /\ UNCHANGED <<tagVars, metaVars, asmVars>>

\* build_config lines 122 to 147 and main lines 269 to 280: the targets
\* collected, the run ended when one is missing, the configuration
\* rendered and written to the sink the arguments choose.  write_pyproject
\* exits before writing when pyproject.toml has no [tool.pack-binary].
BuildAndEmit ==
    /\ gpc = "build"
    /\ IF Missing(gAssets) # << >>
       THEN gpc' = "exit" /\ UNCHANGED gOut
       ELSE LET rendered == [version |-> normalize_python_version(gTag),
                             context |-> gTag,
                             target |-> TargetsFrom(gAssets, ASSET_TARGETS)]
            IN  \/ gpc' = "done" /\ gOut' = Append(gOut, [sink |-> gMode, text |-> rendered])
                \/ gMode = "pyproject" /\ gpc' = "exit" /\ UNCHANGED gOut
    /\ UNCHANGED <<gTag, gMode, gApi, gHtml, gAssets, gHtmlAsked>>
    /\ UNCHANGED <<tagVars, metaVars, asmVars>>

NextGen ==
    \/ ValidateTag
    \/ LoadConfig
    \/ FetchApi
    \/ FetchHtml
    \/ BuildAndEmit

SpecGen == InitGen /\ [][NextGen]_vars

-----------------------------------------------------------------------------
(* Claims about Target.wheel_tag (SpecTag).                                *)

\* A string that is exactly digits, one dot, digits.
ExactMajorMinor(s) ==
    LET parts == Split(s, ".")
    IN  Len(parts) = 2 /\ AllDigits(parts[1]) /\ AllDigits(parts[2])

\* The tag the reference gives a target with a well-formed variant value.
ReferenceTag(t) ==
    IF t.platform = "win32"
    THEN <<"p","y","3","-","n","o","n","e","-","w","i","n","_">> \o (IF t.arch = "amd64" THEN <<"a","m","d","6","4">> ELSE <<"a","r","m","6","4">>)
    ELSE IF t.platform = "linux"
    THEN LET parts == Split(t.manylinux[1], ".")
         IN  <<"p","y","3","-","n","o","n","e","-","m","a","n","y","l","i","n","u","x","_">> \o parts[1] \o <<"_">> \o parts[2] \o <<"_">>
             \o (IF t.arch = "amd64" THEN <<"x","8","6","_","6","4">> ELSE <<"a","a","r","c","h","6","4">>)
    ELSE LET parts == Split(t.macos_target_version[1], ".")
         IN  <<"p","y","3","-","n","o","n","e","-","m","a","c","o","s","x","_">> \o parts[1] \o <<"_">> \o parts[2] \o <<"_">>
             \o (IF t.arch = "amd64" THEN <<"x","8","6","_","6","4">> ELSE <<"a","r","m","6","4">>)

ReferenceReturns(t) ==
    \/ t.platform = "win32"
    \/ t.platform = "linux" /\ t.manylinux # None /\ ExactMajorMinor(t.manylinux[1])
    \/ t.platform = "osx" /\ t.macos_target_version # None
       /\ ExactMajorMinor(t.macos_target_version[1])

\* C1: for every windows, linux or macos target wheel_tag agrees with the
\* reference: it returns the reference's tag when the platform is windows or
\* the platform's variant value is exactly digits, one dot, digits, and it
\* raises, returning no tag, for every other linux or macos target.
C1_TagAgreesWithReference ==
    (tpc = "done" /\ tTarget.platform \in Platforms) =>
        IF ReferenceReturns(tTarget)
        THEN tResult = Returned(ReferenceTag(tTarget))
        ELSE tResult.raised # "no"

-----------------------------------------------------------------------------
(* Claims about generate_metadata (SpecMeta).                              *)

RequiredKeys == {"name", "version", "requires-python"}

RecognizedKeys ==
    {"name", "version", "requires-python", "classifiers", "description", "license",
     "keywords", "authors", "maintainers", "urls", "readme"}

Unrecognized(proj) == DOMAIN proj \ RecognizedKeys

\* A step before the allow-list check raises: a person that cannot be
\* formatted, or a readme that cannot be read.
RaisesBeforeCheck(proj, canRead) ==
    \/ \E k \in {"authors", "maintainers"} \cap DOMAIN proj :
          \E i \in 1 .. Len(proj[k]) : proj[k][i].name = None /\ proj[k][i].email # None
    \/ "readme" \in DOMAIN proj /\ proj["readme"] # << >> /\ ~canRead

\* C4 as stated: for every mapping with the three required keys, an
\* unrecognized key makes rendering fail with the error that lists exactly
\* the unrecognized keys, and a mapping of recognized keys only never raises
\* that error.
C4_StrictAllowList ==
    (mpc = "done" /\ RequiredKeys \subseteq DOMAIN mProject) =>
        /\ Unrecognized(mProject) # {} =>
              mResult.raised = "ValueError" /\ mResult.keys = Unrecognized(mProject)
        /\ Unrecognized(mProject) = {} => mResult.raised # "ValueError"

\* C4 (amended): for every mapping with the three required keys, an
\* unrecognized key makes rendering fail, and unless an earlier step of the
\* rendering has raised (a person with an email and no name, a readme that
\* cannot be read) the error is the one that lists exactly the unrecognized
\* keys; a mapping of recognized keys only never raises that error.
C4_AllowListUnlessRaisedBefore ==
    (mpc = "done" /\ RequiredKeys \subseteq DOMAIN mProject) =>
        /\ Unrecognized(mProject) # {} =>
              /\ mResult.raised # "no"
              /\ ~RaisesBeforeCheck(mProject, mReadable) =>
                    mResult.raised = "ValueError" /\ mResult.keys = Unrecognized(mProject)
        /\ Unrecognized(mProject) = {} => mResult.raised # "ValueError"

\* C4 witness: a rendering that failed listing two unrecognized keys.
C4_Witness ==
    /\ mpc = "done"
    /\ Unrecognized(mProject) = {"bogus", "dependencies"}
    /\ "readme" \in DOMAIN mProject
    /\ mResult.raised = "ValueError"
    /\ mResult.keys = {"bogus", "dependencies"}

StartsWith(s, prefix) == Len(s) >= Len(prefix) /\ SubSeq(s, 1, Len(prefix)) = prefix

\* The segment a line of the output belongs to, told by its header; the
\* line after the blank line is the readme body.
Kind(lines, i) ==
    LET l == lines[i]
    IN  IF i > 1 /\ lines[i - 1] = << >> THEN "body"
        ELSE IF l = << >> THEN "blank"
        ELSE IF StartsWith(l, <<"M","e","t","a","d","a","t","a","-","V","e","r","s","i","o","n",":"," ">>) THEN "Metadata-Version"
        ELSE IF StartsWith(l, <<"N","a","m","e",":"," ">>) THEN "Name"
        ELSE IF StartsWith(l, <<"V","e","r","s","i","o","n",":"," ">>) THEN "Version"
        ELSE IF StartsWith(l, <<"R","e","q","u","i","r","e","s","-","P","y","t","h","o","n",":"," ">>) THEN "Requires-Python"
        ELSE IF StartsWith(l, <<"C","l","a","s","s","i","f","i","e","r",":"," ">>) THEN "Classifier"
        ELSE IF StartsWith(l, <<"S","u","m","m","a","r","y",":"," ">>) THEN "Summary"
        ELSE IF StartsWith(l, <<"L","i","c","e","n","s","e",":"," ">>) THEN "License"
        ELSE IF StartsWith(l, <<"K","e","y","w","o","r","d","s",":"," ">>) THEN "Keywords"
        ELSE IF StartsWith(l, <<"A","u","t","h","o","r",":"," ">>) THEN "Author"
        ELSE IF StartsWith(l, <<"M","a","i","n","t","a","i","n","e","r",":"," ">>) THEN "Maintainer"
        ELSE IF StartsWith(l, <<"P","r","o","j","e","c","t","-","U","R","L",":"," ">>) THEN "Project-URL"
        ELSE IF StartsWith(l, <<"D","e","s","c","r","i","p","t","i","o","n","-","C","o","n","t","e","n","t","-","T","y","p","e",":"," ">>) THEN "content-type"
        ELSE "other"

Count(lines, kind) == Cardinality({i \in 1 .. Len(lines) : Kind(lines, i) = kind})

HeaderOrder ==
    <<"Metadata-Version", "Name", "Version", "Requires-Python", "Classifier", "Summary",
      "License", "Keywords", "Author", "Maintainer", "Project-URL">>

\* The order C5 states, and the order with the content-type line before
\* the blank line.
StatedOrder  == HeaderOrder \o <<"blank", "content-type", "body">>
AmendedOrder == HeaderOrder \o <<"content-type", "blank", "body">>

Rank(order, kind) ==
    IF \E r \in 1 .. Len(order) : order[r] = kind
    THEN CHOOSE r \in 1 .. Len(order) : order[r] = kind
    ELSE 0

InOrder(lines, order) ==
    /\ \A i \in 1 .. Len(lines) : Rank(order, Kind(lines, i)) > 0
    /\ \A i \in 1 .. Len(lines) - 1 :
          Rank(order, Kind(lines, i)) <= Rank(order, Kind(lines, i + 1))

LenOr0(proj, k) == IF k \in DOMAIN proj THEN Len(proj[k]) ELSE 0

\* The segments of the output of a valid project, whatever their order.
Segments(proj, lines) ==
    /\ \A k \in {"Metadata-Version", "Name", "Version", "Requires-Python"} :
          Count(lines, k) = 1
    /\ Count(lines, "Classifier") = LenOr0(proj, "classifiers")
    /\ Count(lines, "Author") = LenOr0(proj, "authors")
    /\ Count(lines, "Maintainer") = LenOr0(proj, "maintainers")
    /\ Count(lines, "Project-URL") = LenOr0(proj, "urls")
    /\ Count(lines, "Summary") <= 1
    /\ Count(lines, "Summary") = 1 => "description" \in DOMAIN proj
    /\ Count(lines, "License") <= 1
    /\ Count(lines, "License") = 1 => "license" \in DOMAIN proj
    /\ Count(lines, "Keywords") <= 1
    /\ Count(lines, "Keywords") = 1 => "keywords" \in DOMAIN proj
    /\ \A k \in {"blank", "content-type", "body"} :
          /\ Count(lines, k) <= 1
          /\ Count(lines, k) = 1 => "readme" \in DOMAIN proj
    /\ ("readme" \in DOMAIN proj /\ proj["readme"] # << >>) =>
          /\ \A k \in {"blank", "content-type", "body"} : Count(lines, k) = 1
          /\ lines[Len(lines)] = ReadmeBody
    /\ DOMAIN proj = RequiredKeys =>
          lines = <<<<"M","e","t","a","d","a","t","a","-","V","e","r","s","i","o","n",":"," ","2",".","4">>, <<"N","a","m","e",":"," ">> \o proj["name"],
                    <<"V","e","r","s","i","o","n",":"," ">> \o proj["version"],
                    <<"R","e","q","u","i","r","e","s","-","P","y","t","h","o","n",":"," ">> \o proj["requires-python"]>>

ValidProject(proj, canRead) ==
    /\ RequiredKeys \subseteq DOMAIN proj
    /\ Unrecognized(proj) = {}
    /\ ~RaisesBeforeCheck(proj, canRead)

\* C5 as stated: a valid project renders, its lines are the stated
\* segments, and they come in the stated order, the readme block being a
\* blank line, the content-type line and the body.
C5_StatedLineOrder ==
    (mpc = "done" /\ ValidProject(mProject, mReadable)) =>
        /\ mResult.raised = "no"
        /\ Segments(mProject, mResult.lines)
        /\ InOrder(mResult.lines, StatedOrder)

\* C5 (amended): a valid project renders, its lines are the stated
\* segments, and they come in the fixed order Metadata-Version, Name,
\* Version, Requires-Python, Classifier lines, Summary, License, Keywords,
\* Author lines, Maintainer lines, Project-URL lines, then the content-type
\* line, a blank line and the readme body; a project of only the three
\* required keys yields exactly the four lines.
C5_LineOrder ==
    (mpc = "done" /\ ValidProject(mProject, mReadable)) =>
        /\ mResult.raised = "no"
        /\ Segments(mProject, mResult.lines)
        /\ InOrder(mResult.lines, AmendedOrder)

\* C5 witness: a rendering with every segment, the readme block included.
C5_Witness ==
    /\ mpc = "done"
    /\ mResult.raised = "no"
    /\ \A k \in {"Classifier", "Summary", "License", "Keywords", "Author", "Maintainer",
                 "Project-URL", "content-type", "blank", "body"} :
          Count(mResult.lines, k) >= 1

-----------------------------------------------------------------------------
(* Claims about build.main (Spec).                                         *)

B64Chars == {B64Alphabet[i] : i \in 1 .. Len(B64Alphabet)}

\* The value of a character of the URL-safe base64 alphabet.
B64Value == [c \in B64Chars |-> (CHOOSE i \in 1 .. Len(B64Alphabet) : B64Alphabet[i] = c) - 1]

IsB64Text(s) == \A i \in 1 .. Len(s) : s[i] \in B64Chars

\* The value of the character at 0-based place k of a base64 text.
SextetAt(s, k) == B64Value[s[k + 1]]

\* The bytes an unpadded base64 text decodes to: three for every four
\* characters, two for a last group of three, one for a last group of two.
B64Decode(s) ==
    [n \in 1 .. (Len(s) * 3) \div 4 |->
        LET g == (n - 1) \div 3
            r == (n - 1) % 3
        IN  IF r = 0 THEN SextetAt(s, 4 * g) * 4 + (SextetAt(s, 4 * g + 1) \div 16)
            ELSE IF r = 1
            THEN (SextetAt(s, 4 * g + 1) % 16) * 16 + (SextetAt(s, 4 * g + 2) \div 4)
            ELSE (SextetAt(s, 4 * g + 2) % 4) * 64 + SextetAt(s, 4 * g + 3)]

\* The lines of a text that ends with a newline.
LinesOf(text) == Split(SubSeq(text, 1, Len(text) - 1), "\n")

\* The fields of a RECORD line of a file other than RECORD, against the
\* member stored: path, "sha256=" and the unpadded base64 of the digest,
\* the length.
FieldsDescribe(fields, member) ==
    /\ Len(fields) = 3
    /\ fields[1] = member.name
    /\ StartsWith(fields[2], <<"s","h","a","2","5","6","=">>)
    /\ IsB64Text(SubSeq(fields[2], 8, Len(fields[2])))
    /\ B64Decode(SubSeq(fields[2], 8, Len(fields[2]))) = sha256_digest(member.content)
    /\ fields[3] = Str(Len(member.content))

LinesDescribe(lines, entries) ==
    /\ Len(lines) = Len(entries)
    /\ \A i \in 1 .. Len(entries) - 1 :
          \A fields \in {Split(lines[i], ",")} : FieldsDescribe(fields, entries[i])
    /\ Split(lines[Len(lines)], ",") = <<entries[Len(entries)].name, << >>, << >> >>

RecordHolds(entries, proj, cfg, t) ==
    /\ Len(entries) = 4
    /\ entries[1].name = ExecutablePath(proj, cfg, t)
    /\ entries[2].name = DistInfoPath(proj, <<"W","H","E","E","L">>)
    /\ entries[3].name = DistInfoPath(proj, <<"M","E","T","A","D","A","T","A">>)
    /\ entries[4].name = DistInfoPath(proj, <<"R","E","C","O","R","D">>)
    /\ entries[4].content[Len(entries[4].content)] = 10
    /\ \A lines \in {LinesOf(Decode(entries[4].content))} : LinesDescribe(lines, entries)

\* C2: in every archive the assembler has written, RECORD has one line per
\* member, in the members' order (script, WHEEL, METADATA, then RECORD);
\* every line but the last carries the unpadded URL-safe base64 SHA-256
\* digest and the byte length of the content stored under its path, and
\* RECORD's own line has an empty digest and an empty length.
C2_RecordDescribesArchive ==
    \A n \in DOMAIN dist :
        dist[n].complete =>
            RecordHolds(dist[n].entries, project, config, config.target[dist[n].by])

\* C2 witness: a run that ended with the archive of a non-Windows target
\* written, RECORD last among its four members.
C2_Witness ==
    /\ pc = "done"
    /\ \E n \in DOMAIN dist :
          /\ dist[n].complete
          /\ config.target[dist[n].by].platform = "osx"
          /\ Len(dist[n].entries) = 4
          /\ dist[n].entries[1].attr # 0

\* C3: when the run has failed at target N, every target before N has its
\* archive in dist as it wrote it, no archive of N is in dist, and no step
\* was performed for a target after N.
C3_StopsAtFirstFailure ==
    pc = "failed" =>
        /\ \A i \in 1 .. failedAt - 1 :
              /\ i \in DOMAIN built
              /\ \E n \in DOMAIN dist :
                    dist[n].complete /\ dist[n].by = i /\ dist[n].entries = built[i]
        /\ \A n \in DOMAIN dist : ~(dist[n].complete /\ dist[n].by = failedAt)
        /\ \A st \in steps : st[1] <= failedAt

\* C6: a run over n targets that completes leaves n archives in dist, one
\* per target.
C6_OneArchivePerTarget ==
    pc = "done" =>
        /\ Cardinality(DOMAIN dist) = Len(config.target)
        /\ \A i \in 1 .. Len(config.target) :
              \E n \in DOMAIN dist : dist[n].complete /\ dist[n].by = i

\* C8: no archive is written from a response whose status is not a success.
C8_NoArchiveFromErrorStatus ==
    \A n \in DOMAIN dist : dist[n].status \in 200 .. 299

\* The placeholders of a template.
Placeholders(template) ==
    {template[i].var : i \in {j \in 1 .. Len(template) : template[j].kind = "var"}}

\* C9: every URL fetched was rendered from a template all of whose
\* placeholders are keys of context.
C9_NoUnresolvedPlaceholderFetched ==
    \A i \in 1 .. Len(fetched) :
        Placeholders(config.target[fetched[i].idx].url) \subseteq DOMAIN config.context

\* C10: every target whose archive was written has manylinux set exactly
\* when its platform is linux and macos_target_version set exactly when its
\* platform is macos.
C10_VariantMatchesPlatform ==
    \A n \in DOMAIN dist :
        dist[n].complete =>
            LET t == config.target[dist[n].by]
            IN  /\ (t.manylinux # None) <=> (t.platform = "linux")
                /\ (t.macos_target_version # None) <=> (t.platform = "osx")

-----------------------------------------------------------------------------
(* Claims about generate_config.main (SpecGen).                            *)

\* A tag of the form major.minor.patch or major.minor.patch.patch: digits
\* and dots only, two or three dots, a digit before and after every dot.
WellFormedTag(tag) ==
    /\ tag # << >>
    /\ \A i \in 1 .. Len(tag) : tag[i] \in Digits \cup {"."}
    /\ Cardinality({i \in 1 .. Len(tag) : tag[i] = "."}) \in {2, 3}
    /\ tag[1] # "." /\ tag[Len(tag)] # "."
    /\ \A i \in 1 .. Len(tag) - 1 : ~(tag[i] = "." /\ tag[i + 1] = ".")

\* Every asset of the table has a URL among the discovered assets.
AllFound(assets) == \A n \in AssetNames : n \in DOMAIN assets /\ assets[n] # << >>

\* C7: a configuration is emitted only when the tag is well formed and
\* every one of the five assets was found, and it then names the five
\* targets; the HTML page is asked only after the API answered with an
\* error status or with no asset; and a run that went past the check of
\* the tag with a malformed tag, or past the check of the assets with one
\* missing, has ended with nothing written.
C7_EmitsOnlyCompleteConfig ==
    /\ gOut # << >> =>
          /\ gpc = "done"
          /\ WellFormedTag(gTag)
          /\ AllFound(gAssets)
          /\ Len(gOut) = 1
          /\ Len(gOut[1].text.target) = Len(ASSET_TARGETS)
          /\ \A i \in 1 .. Len(ASSET_TARGETS) :
                /\ gOut[1].text.target[i].asset = ASSET_TARGETS[i]
                /\ gOut[1].text.target[i].url = gAssets[ASSET_TARGETS[i]]
    /\ gpc = "done" => gOut # << >>
    /\ gHtmlAsked =>
          \/ gApi.kind = "bad_status"
          \/ gApi.kind = "ok" /\ DOMAIN gApi.assets = {}
    /\ (gpc # "validate" /\ ~WellFormedTag(gTag)) => gpc = "exit" /\ gOut = << >>
    /\ (gpc \in {"done", "exit"} /\ ~AllFound(gAssets)) => gpc = "exit" /\ gOut = << >>

\* C7 witness: a configuration emitted from the assets of the HTML page,
\* asked after the API answered with an error status.
C7_Witness ==
    /\ gpc = "done"
    /\ gHtmlAsked
    /\ gApi.kind = "bad_status"
    /\ Len(gOut) = 1
    /\ gOut[1].sink = "pyproject"

=============================================================================
